---- MODULE Spec2Model ----
(***************************************************************************)
(* Model of the quality runners of src/python/quality_runner.py:           *)
(*   PsnrQualityRunner  (simple path: external tool, log parsing)          *)
(*   VmafQualityRunner  (fusion path: assemble, rescale, predict, correct) *)
(*   VmaftQualityRunner (fusion path: assemble, predict, clip)             *)
(*                                                                         *)
(* Numbers.  Python floats are modelled as exact fixed-point integers.     *)
(* Feature values, rescale bounds and the motion argument are counted in   *)
(* units of 1/Q; scores and predictions in units of 1/SQ, SQ = 1000 * Q,   *)
(* so that the factor (val - 12) * 0.015 + 1 is the integer ratio          *)
(* ((val - 12 Q) * 15 + 1000 Q) / (1000 Q) and every division of the       *)
(* model is exact on the inputs it is given.                               *)
(***************************************************************************)
EXTENDS Integers, Sequences, FiniteSets, TLC

VARIABLES
    store,      \* ResultStore: (asset, executor TYPE) -> row
    logFiles,   \* the (asset, executor TYPE) pairs whose log file exists
    psnrLog,    \* asset -> lines of the PSNR log file of that asset
    last,       \* the most recent call on a runner and what it did
    prev,       \* which call came before it, and whether it succeeded
    runner,     \* TYPE of the runner the calls are made on
    unit        \* a direct call of one method and its output

vars == <<store, logFiles, psnrLog, last, prev, runner, unit>>

----------------------------------------------------------------------------
(* Bounds of the model *)

NumFrames == 2      \* frames of an asset
MaxLogLen == 3      \* lines of a log handed to _get_quality_scores
MaxVals   == 2      \* length of a series handed to _rescale
MaxPsnrLog == 4     \* lines a PSNR log file may grow to

----------------------------------------------------------------------------
(* Fixed-point units *)

Q  == 12 * 100      \* 1.0 of a feature value
SQ == 1000 * Q      \* 1.0 of a score

Min(a, b) == IF a < b THEN a ELSE b

RECURSIVE MinOf(_)
MinOf(S) ==
    LET x == CHOOSE y \in S : TRUE
    IN  IF S = {x} THEN x ELSE Min(x, MinOf(S \ {x}))

\* a result dictionary with no key
EmptyDict == [k \in {} |-> <<>>]

----------------------------------------------------------------------------
(* PsnrQualityRunner._get_quality_scores: the log parser                   *)

Digits == {"0", "1", "2", "3", "4", "5", "6", "7", "8", "9"}

DigitVal ==
    "0" :> 0 @@ "1" :> 1 @@ "2" :> 2 @@ "3" :> 3 @@ "4" :> 4 @@
    "5" :> 5 @@ "6" :> 6 @@ "7" :> 7 @@ "8" :> 8 @@ "9" :> 9

\* int(mo.group(1)): group 1 is [0-9]+, read in base ten
RECURSIVE ParseInt(_)
ParseInt(tok) ==
    IF tok = <<>> THEN 0
    ELSE 10 * ParseInt(SubSeq(tok, 1, Len(tok) - 1)) + DigitVal[tok[Len(tok)]]

RECURSIVE Pow10(_)
Pow10(n) == IF n = 0 THEN 1 ELSE 10 * Pow10(n - 1)

\* the characters of tok that are digits, in order
RECURSIVE DigitsOf(_)
DigitsOf(tok) ==
    IF tok = <<>> THEN <<>>
    ELSE IF Head(tok) \in Digits THEN <<Head(tok)>> \o DigitsOf(Tail(tok))
         ELSE DigitsOf(Tail(tok))

\* float(mo.group(2)) accepts an optional leading '-', digits and at most
\* one '.', with at least one digit; anything else raises ValueError
FloatBody(tok) == IF tok # <<>> /\ tok[1] = "-" THEN Tail(tok) ELSE tok

FloatOk(tok) ==
    LET body == FloatBody(tok)
    IN  /\ \A i \in 1..Len(body) : body[i] # "-"
        /\ Cardinality({i \in 1..Len(body) : body[i] = "."}) <= 1
        /\ DigitsOf(body) # <<>>

\* the value of an accepted token, in units of 1/Q
ParseFloat(tok) ==
    LET body == FloatBody(tok)
        dots == {i \in 1..Len(body) : body[i] = "."}
        frac == IF dots = {} THEN 0 ELSE Len(body) - (CHOOSE i \in dots : TRUE)
        mag  == (ParseInt(DigitsOf(body)) * Q) \div Pow10(frac)
    IN  IF tok[1] = "-" THEN 0 - mag ELSE mag

\* the loop without the check of the frame index against the counter
RECURSIVE ParseLines_unchecked(_, _, _, _)
ParseLines_unchecked(lines, i, counter, psnr_scores) ==
    IF i > Len(lines) THEN [ok |-> TRUE, scores |-> psnr_scores]
    ELSE LET line == lines[i] IN
         IF ~line.matches
         THEN ParseLines_unchecked(lines, i + 1, counter, psnr_scores)
         ELSE IF ~FloatOk(line.val)
              THEN [ok |-> FALSE, scores |-> <<>>]
              ELSE ParseLines_unchecked(lines, i + 1, counter + 1,
                       Append(psnr_scores, ParseFloat(line.val)))

\* the loop of _get_quality_scores over the lines from position i on.
\* A line is [matches, idx, val]: whether re.match succeeds, and the two
\* groups.  The result is [ok, scores]; ok = FALSE is a raised exception.
RECURSIVE ParseLines(_, _, _, _)
ParseLines(lines, i, counter, psnr_scores) ==
    IF i > Len(lines) THEN [ok |-> TRUE, scores |-> psnr_scores]
    ELSE LET line == lines[i] IN
         IF ~line.matches
         THEN ParseLines(lines, i + 1, counter, psnr_scores)
         ELSE IF ParseInt(line.idx) # counter        \* assert cur_idx == counter
              THEN [ok |-> FALSE, scores |-> <<>>]
              ELSE IF ~FloatOk(line.val)             \* float() raises
                   THEN [ok |-> FALSE, scores |-> <<>>]
                   ELSE ParseLines(lines, i + 1, counter + 1,
                                   Append(psnr_scores, ParseFloat(line.val)))

get_quality_scores(lines) ==
    LET r == ParseLines(lines, 1, 0, <<>>)
    IN  IF r.ok /\ Len(r.scores) # 0                 \* assert len(psnr_scores) != 0
        THEN [ok |-> TRUE,  dict |-> ("PSNR_scores" :> r.scores)]
        ELSE [ok |-> FALSE, dict |-> EmptyDict]
----------------------------------------------------------------------------
(* VmafQualityRunner: constants *)

VIF    == "VMAF_feature_vif_scores"
ADM    == "VMAF_feature_adm_scores"
ANSNR  == "VMAF_feature_ansnr_scores"
MOTION == "VMAF_feature_motion_scores"

FeatureKeys == {VIF, ADM, ANSNR, MOTION}

\* (lower, upper) bound of each feature, in units of 1/Q
FEATURE_RESCALE_DICT ==
    VIF    :> <<0, Q>> @@
    ADM    :> <<(4 * Q) \div 10, Q>> @@
    ANSNR  :> <<10 * Q, 50 * Q>> @@
    MOTION :> <<0, 20 * Q>>

\* the order with the first two features exchanged
SVM_MODEL_ORDERED_SCORES_KEYS_swapped == <<ADM, VIF, ANSNR, MOTION>>

SVM_MODEL_ORDERED_SCORES_KEYS == <<VIF, ADM, ANSNR, MOTION>>

get_scores_key(type) ==
    CASE type = "PSNR"  -> "PSNR_scores"
      [] type = "VMAF"  -> "VMAF_scores"
      [] type = "VMAFT" -> "VMAFT_scores"

----------------------------------------------------------------------------
(* VmafQualityRunner._rescale and _post_correction *)

\* np.clip(v, lower_bound, upper_bound) of one value
clip(v, lower_bound, upper_bound) ==
    IF v < lower_bound THEN lower_bound
    ELSE IF v > upper_bound THEN upper_bound ELSE v

\* a rescale that does not clip
rescale_noclip(vals, lower_upper_bound) ==
    [i \in 1..Len(vals) |->
        ((vals[i] - lower_upper_bound[1]) * Q)
            \div (lower_upper_bound[2] - lower_upper_bound[1])]

\* _rescale(vals, lower_upper_bound); the output is in units of 1/Q
rescale(vals, lower_upper_bound) ==
    LET lower_bound == lower_upper_bound[1]
        upper_bound == lower_upper_bound[2]
    IN  [i \in 1..Len(vals) |->
            ((clip(vals[i], lower_bound, upper_bound) - lower_bound) * Q)
                \div (upper_bound - lower_bound)]

\* the factor without the cap of the motion value at 20
correction_factor_nocap(motion) == (motion - 12 * Q) * 15 + 1000 * Q

\* the factor (val - 12) * 0.015 + 1 as a numerator over 1000 Q
correction_factor(motion) ==
    LET val == IF motion > 20 * Q THEN 20 * Q ELSE motion
    IN  (val - 12 * Q) * 15 + 1000 * Q

\* the score after "score *= ..." and before the two comparisons with
\* 100.0 and 0.0.  Scores are whole multiples of SQ here, so dividing by
\* 1000 Q = SQ first is exact and keeps the product within 32 bits.
corrected_score(motion, score) ==
    IF motion > 12 * Q
    THEN (score \div SQ) * correction_factor(motion)
    ELSE score

\* a post-correction that clamps the score before it multiplies
post_correction_clamp_first(motion, score) ==
    LET s == IF score > 100 * SQ THEN 100 * SQ
             ELSE IF score < 0 THEN 0 ELSE score
    IN  corrected_score(motion, s)

\* _post_correction(motion, score); score and output in units of 1/SQ
post_correction(motion, score) ==
    LET s == corrected_score(motion, score)
    IN  IF s > 100 * SQ THEN 100 * SQ
        ELSE IF s < 0 THEN 0 ELSE s
----------------------------------------------------------------------------
(* Inputs of the direct calls *)

IdxTokens == {<<"0">>, <<"1">>, <<"2">>, <<"3">>, <<"0", "1">>}
ValTokens == {<<"3", "0">>, <<"-", "2", ".", "5">>, <<"1", ".", "2", ".", "3">>}

OtherLine == [matches |-> FALSE, idx |-> <<>>, val |-> <<>>]
PsnrLine(i, v) == [matches |-> TRUE, idx |-> i, val |-> v]

Lines == {OtherLine} \cup {PsnrLine(i, v) : i \in IdxTokens, v \in ValTokens}

SeqsUpTo(S, n) == UNION {[1..k -> S] : k \in 0..n}

Logs == SeqsUpTo(Lines, MaxLogLen)

\* values around the two bounds of a feature, a tenth apart
ValSamples(key) ==
    LET lo == FEATURE_RESCALE_DICT[key][1]
        hi == FEATURE_RESCALE_DICT[key][2]
        d  == Q \div 10
    IN  {lo - d, lo, lo + d, hi - d, hi, hi + d}

MotionSamples ==
    {0, Q \div 2, Q, 5 * Q, 12 * Q, 12 * Q + Q \div 10, 15 * Q,
     20 * Q, 20 * Q + Q \div 10, 25 * Q}

ScoreSamples == {(0 - 10) * SQ, 0, 50 * SQ, 95 * SQ, 100 * SQ, 110 * SQ}

----------------------------------------------------------------------------
(* Direct calls of the three methods *)

NoCall == [fn |-> "none"]

CallGetQualityScores ==
    /\ unit = NoCall
    /\ \E lines \in Logs :
        LET r == get_quality_scores(lines)
        IN  /\ unit' = [fn |-> "get_quality_scores", lines |-> lines,
                        ok |-> r.ok,
                        scores |-> IF r.ok THEN r.dict["PSNR_scores"] ELSE <<>>]
            /\ UNCHANGED <<store, logFiles, psnrLog, last, prev, runner>>

CallRescale ==
    /\ unit = NoCall
    /\ \E key \in FeatureKeys :
        \E vals \in SeqsUpTo(ValSamples(key), MaxVals) :
            /\ unit' = [fn |-> "rescale", key |-> key, vals |-> vals,
                        out |-> rescale(vals, FEATURE_RESCALE_DICT[key])]
            /\ UNCHANGED <<store, logFiles, psnrLog, last, prev, runner>>

CallPostCorrection ==
    /\ unit = NoCall
    /\ \E motion \in MotionSamples, score \in ScoreSamples :
        /\ unit' = [fn |-> "post_correction", motion |-> motion,
                    score |-> score, out |-> post_correction(motion, score)]
        /\ UNCHANGED <<store, logFiles, psnrLog, last, prev, runner>>
----------------------------------------------------------------------------
(* Assets, executor identities, Results and the ResultStore *)

Assets == {"a1"}

FrameCount(asset) == NumFrames

Runners == {"PSNR", "VMAF", "VMAFT"}
FusionRunners == {"VMAF", "VMAFT"}
FEATURE_TYPE == "VMAF_feature"          \* VmafFeatureExtractor.TYPE
Types == Runners \cup {FEATURE_TYPE}

VERSION ==
    "PSNR" :> "1.0" @@ "VMAF" :> "0.1" @@ "VMAFT" :> "0.1" @@
    FEATURE_TYPE :> "0.1"

executor_id(type) == <<type, VERSION[type]>>

Keys == Assets \X Types

\* Result(asset, executor_id, result_dict)
Result(asset, id, result_dict) ==
    [asset |-> asset, executor_id |-> id, result_dict |-> result_dict]

NoResult == Result("", <<"", "">>, EmptyDict)

NoRow == [present |-> FALSE, result |-> NoResult]
Row(result) == [present |-> TRUE, result |-> result]

----------------------------------------------------------------------------
(* The feature extractor and the FeatureAssembler *)

Frame(vif, adm, ansnr, motion) ==
    VIF :> vif @@ ADM :> adm @@ ANSNR :> ansnr @@ MOTION :> motion

\* per-frame outputs of the external feature tool, as (vif, adm, ansnr,
\* motion): (0.5, 0.6, 30, 5), (0.9, 0.8, 40, 15) and a frame outside
\* every bound, (1.1, 0.3, 5, 25)
FrameSamples ==
    {Frame(Q \div 2, (6 * Q) \div 10, 30 * Q, 5 * Q),
     Frame((9 * Q) \div 10, (8 * Q) \div 10, 40 * Q, 15 * Q),
     Frame((11 * Q) \div 10, (3 * Q) \div 10, 5 * Q, 25 * Q)}

\* the four series of an extraction; the series named by trunc has lost
\* its last frame
FeatureDict(frames, trunc) ==
    [k \in FeatureKeys |->
        LET series == [i \in 1..Len(frames) |-> frames[i][k]]
        IN  IF k = trunc THEN SubSeq(series, 1, Len(series) - 1) ELSE series]

ExtractorOutputs(asset) ==
    {FeatureDict(frames, trunc) :
        frames \in [1..FrameCount(asset) -> FrameSamples],
        trunc \in FeatureKeys \cup {"none"}}

\* FeatureAssembler's alignment check on the merged series
Aligned(feature_dict) ==
    \A k1, k2 \in DOMAIN feature_dict :
        Len(feature_dict[k1]) = Len(feature_dict[k2])

\* FeatureAssembler.run() for one asset and the VMAF_feature extractor:
\* the extractor's cached Result if there is one, else the extraction
\* `extracted`, which leaves a log file and, if aligned, a ResultStore row
AssemblerRun(asset, extracted) ==
    LET key == <<asset, FEATURE_TYPE>> IN
    IF store[key].present
    THEN [ok |-> TRUE, feature_result |-> store[key].result,
          store |-> store, logFiles |-> logFiles, tool |-> 0]
    ELSE LET res == Result(asset, executor_id(FEATURE_TYPE), extracted) IN
         IF Aligned(extracted)
         THEN [ok |-> TRUE, feature_result |-> res,
               store |-> [store EXCEPT ![key] = Row(res)],
               logFiles |-> logFiles \cup {key}, tool |-> 1]
         ELSE [ok |-> FALSE, feature_result |-> NoResult,
               store |-> store,
               logFiles |-> logFiles \cup {key}, tool |-> 1]

\* FeatureAssembler.remove_logs() / remove_results(): fan out to the
\* constituent extractor
AssemblerRemoveLogs(asset) == logFiles \ {<<asset, FEATURE_TYPE>>}

AssemblerRemoveResults(asset) ==
    [store EXCEPT ![<<asset, FEATURE_TYPE>>] = NoRow]

----------------------------------------------------------------------------
(* The production steps of the two fusion-path runners *)

\* predictions the regression model can return, below, inside and above
\* the score range
PredValues == {(0 - 10) * SQ, 50 * SQ, 110 * SQ}

\* ordered_scaled_scores_list of VmafQualityRunner._run_on_asset
ordered_scaled_scores_list(feature_dict) ==
    [j \in 1..Len(SVM_MODEL_ORDERED_SCORES_KEYS) |->
        rescale(feature_dict[SVM_MODEL_ORDERED_SCORES_KEYS[j]],
                FEATURE_RESCALE_DICT[SVM_MODEL_ORDERED_SCORES_KEYS[j]])]

\* a zip that stops one tuple early
zip_short(lists) ==
    [i \in 1..(MinOf({Len(lists[j]) : j \in DOMAIN lists}) - 1) |->
        [j \in DOMAIN lists |-> lists[j][i]]]

\* zip(*lists): one tuple per index up to the shortest list
zip(lists) ==
    [i \in 1..MinOf({Len(lists[j]) : j \in DOMAIN lists}) |->
        [j \in DOMAIN lists |-> lists[j][i]]]

\* the vector handed to svm_predict for one zipped tuple
vmaf_xs(score_vector) ==
    <<score_vector[1], score_vector[2], score_vector[3], score_vector[4]>>

\* the value passed as `motion` to _post_correction for one zipped tuple
vmaf_motion(score_vector) == score_vector[4]

\* VmafQualityRunner._run_on_asset after the assembler has run; preds[i]
\* is what svm_predict returns for frame i
run_on_asset_vmaf(asset, feature_result, preds) ==
    LET vectors == zip(ordered_scaled_scores_list(feature_result.result_dict))
        scores  == [i \in 1..Len(vectors) |->
                       post_correction(vmaf_motion(vectors[i]), preds[i])]
    IN  [xs |-> [i \in 1..Len(vectors) |-> vmaf_xs(vectors[i])],
         result |-> Result(asset, executor_id("VMAF"),
                       (get_scores_key("VMAF") :> scores)
                           @@ feature_result.result_dict)]

\* LibsvmnusvrTrainTestModel.get_perframe_xs_from_result: one row of
\* feature values per frame
get_perframe_xs_from_result(feature_result) ==
    LET d == feature_result.result_dict
    IN  [i \in 1..MinOf({Len(d[k]) : k \in DOMAIN d}) |->
            [k \in DOMAIN d |-> d[k][i]]]

\* a VMAFT production step that applies the VMAF post-correction, driven
\* by the motion value of the frame
run_on_asset_vmaft_corrected(asset, feature_result, preds) ==
    LET xs      == get_perframe_xs_from_result(feature_result)
        ys_pred == [i \in 1..Len(xs) |->
                       post_correction(xs[i][MOTION], preds[i])]
    IN  [xs |-> xs,
         result |-> Result(asset, executor_id("VMAFT"),
                       (get_scores_key("VMAFT") :> ys_pred)
                           @@ feature_result.result_dict)]

\* VmaftQualityRunner._run_on_asset after the assembler has run; preds is
\* what model.predict(xs) returns
run_on_asset_vmaft(asset, feature_result, preds) ==
    LET xs      == get_perframe_xs_from_result(feature_result)
        ys_pred == [i \in 1..Len(xs) |-> clip(preds[i], 0, 100 * SQ)]
    IN  [xs |-> xs,
         result |-> Result(asset, executor_id("VMAFT"),
                       (get_scores_key("VMAFT") :> ys_pred)
                           @@ feature_result.result_dict)]
----------------------------------------------------------------------------
(* The external PSNR tool *)

DigitStr == <<"0", "1", "2", "3", "4", "5", "6", "7", "8", "9">>

\* the log of a complete run over n frames, every value 30
GoodLog(n) == [i \in 1..n |-> PsnrLine(<<DigitStr[i]>>, <<"3", "0">>)]

\* the same log with the last frame index one too high
GapLog(n) ==
    [i \in 1..n |->
        PsnrLine(<<DigitStr[IF i = n THEN i + 1 ELSE i]>>, <<"3", "0">>)]

\* what the tool may append to the log file of an asset
ToolOutputs(asset) ==
    {GoodLog(FrameCount(asset)), GapLog(FrameCount(asset)), <<>>}

----------------------------------------------------------------------------
(* Calls on a runner *)

\* a call and what it did: the Result returned, the feature series the
\* assembler obtained, the vectors handed to the model and its predictions,
\* the number of external-tool invocations, and whether the assembler and
\* the model were run
CallRec(op, type, asset, hit, ok, result, features, xs, preds, tool, assembled, inferred) ==
    [op |-> op, runner |-> type, asset |-> asset, hit |-> hit, ok |-> ok,
     result |-> result, features |-> features, xs |-> xs, preds |-> preds,
     tool |-> tool, assembled |-> assembled, inferred |-> inferred]

NoOp == CallRec("none", "", "", FALSE, FALSE, NoResult, EmptyDict, <<>>,
                <<>>, 0, FALSE, FALSE)

Removal(op, type, asset) ==
    CallRec(op, type, asset, FALSE, TRUE, NoResult, EmptyDict, <<>>, <<>>,
            0, FALSE, FALSE)

\* what is remembered of a call once another call has been made
PrevOf(call) ==
    [op |-> call.op, runner |-> call.runner, asset |-> call.asset,
     ok |-> call.ok]

\* a lookup that always misses
Lookup_miss(type, asset) == NoRow

\* Executor.run looks (asset, own identity) up in the ResultStore
Lookup(type, asset) == store[<<asset, type>>]

\* Executor.run on a ResultStore hit: the cached Result, unchanged
CacheHit(type, asset) ==
    /\ Lookup(type, asset).present
    /\ last' = CallRec("run", type, asset, TRUE, TRUE,
                       Lookup(type, asset).result, EmptyDict, <<>>, <<>>, 0,
                       FALSE, FALSE)
    /\ UNCHANGED <<store, logFiles, psnrLog>>

\* PsnrQualityRunner._run_and_generate_log_file: the tool's output is
\* appended (>>) to the log file, which the shell creates if missing
run_and_generate_log_file(asset, output) ==
    /\ psnrLog' = [psnrLog EXCEPT ![asset] = @ \o output]
    /\ logFiles' = logFiles \cup {<<asset, "PSNR">>}

\* QualityRunner._read_result on the log file as it is after the tool ran
read_result(asset, lines) ==
    LET r == get_quality_scores(lines)
    IN  [ok |-> r.ok,
         result |-> IF r.ok THEN Result(asset, executor_id("PSNR"), r.dict)
                    ELSE NoResult]

PsnrRun(asset) ==
    /\ runner = "PSNR"
    /\ prev' = PrevOf(last)
    /\ UNCHANGED <<runner, unit>>
    /\ \/ CacheHit("PSNR", asset)
       \/ /\ ~Lookup("PSNR", asset).present
          /\ \E output \in ToolOutputs(asset) :
                /\ Len(psnrLog[asset]) + Len(output) <= MaxPsnrLog
                /\ run_and_generate_log_file(asset, output)
                /\ LET r == read_result(asset, psnrLog[asset] \o output) IN
                   /\ store' = IF r.ok
                               THEN [store EXCEPT ![<<asset, "PSNR">>] =
                                        Row(r.result)]
                               ELSE store
                   /\ last' = CallRec("run", "PSNR", asset, FALSE, r.ok,
                                      r.result, EmptyDict, <<>>, <<>>, 1, FALSE,
                                      FALSE)

VmafRun(asset) ==
    /\ runner = "VMAF"
    /\ prev' = PrevOf(last)
    /\ UNCHANGED <<psnrLog, runner, unit>>
    /\ \/ CacheHit("VMAF", asset)
       \/ /\ ~Lookup("VMAF", asset).present
          /\ \E extracted \in ExtractorOutputs(asset) :
                LET asm == AssemblerRun(asset, extracted) IN
                /\ logFiles' = asm.logFiles
                /\ IF asm.ok
                   THEN \E preds \in [1..FrameCount(asset) -> PredValues] :
                        LET r == run_on_asset_vmaf(asset, asm.feature_result,
                                                   preds)
                        IN  /\ store' = [asm.store EXCEPT
                                           ![<<asset, "VMAF">>] = Row(r.result)]
                            /\ last' = CallRec("run", "VMAF", asset, FALSE,
                                           TRUE, r.result,
                                           asm.feature_result.result_dict,
                                           r.xs, preds, asm.tool, TRUE, TRUE)
                   ELSE /\ store' = asm.store
                        /\ last' = CallRec("run", "VMAF", asset, FALSE, FALSE,
                                       NoResult, extracted, <<>>, <<>>,
                                       asm.tool, TRUE, FALSE)

VmaftRun(asset) ==
    /\ runner = "VMAFT"
    /\ prev' = PrevOf(last)
    /\ UNCHANGED <<psnrLog, runner, unit>>
    /\ \/ CacheHit("VMAFT", asset)
       \/ /\ ~Lookup("VMAFT", asset).present
          /\ \E extracted \in ExtractorOutputs(asset) :
                LET asm == AssemblerRun(asset, extracted) IN
                /\ logFiles' = asm.logFiles
                /\ IF asm.ok
                   THEN \E preds \in [1..FrameCount(asset) -> PredValues] :
                        LET r == run_on_asset_vmaft(asset, asm.feature_result,
                                                    preds)
                        IN  /\ store' = [asm.store EXCEPT
                                           ![<<asset, "VMAFT">>] = Row(r.result)]
                            /\ last' = CallRec("run", "VMAFT", asset, FALSE,
                                           TRUE, r.result,
                                           asm.feature_result.result_dict,
                                           r.xs, preds, asm.tool, TRUE, TRUE)
                   ELSE /\ store' = asm.store
                        /\ last' = CallRec("run", "VMAFT", asset, FALSE,
                                       FALSE, NoResult, extracted, <<>>,
                                       <<>>, asm.tool, TRUE, FALSE)

\* Executor._remove_log / _remove_result, not overridden by the PSNR runner
PsnrRemoveLog(asset) ==
    /\ runner = "PSNR"
    /\ prev' = PrevOf(last)
    /\ last' = Removal("remove_log", "PSNR", asset)
    /\ logFiles' = logFiles \ {<<asset, "PSNR">>}
    /\ psnrLog' = [psnrLog EXCEPT ![asset] = <<>>]
    /\ UNCHANGED <<store, runner, unit>>

PsnrRemoveResult(asset) ==
    /\ runner = "PSNR"
    /\ prev' = PrevOf(last)
    /\ last' = Removal("remove_result", "PSNR", asset)
    /\ store' = [store EXCEPT ![<<asset, "PSNR">>] = NoRow]
    /\ UNCHANGED <<logFiles, psnrLog, runner, unit>>

\* VmafQualityRunner._remove_log / _remove_result
VmafRemoveLog(asset) ==
    /\ runner = "VMAF"
    /\ prev' = PrevOf(last)
    /\ last' = Removal("remove_log", "VMAF", asset)
    /\ logFiles' = AssemblerRemoveLogs(asset)
    /\ UNCHANGED <<store, psnrLog, runner, unit>>

VmafRemoveResult(asset) ==
    /\ runner = "VMAF"
    /\ prev' = PrevOf(last)
    /\ last' = Removal("remove_result", "VMAF", asset)
    /\ store' = AssemblerRemoveResults(asset)
    /\ UNCHANGED <<logFiles, psnrLog, runner, unit>>

\* VmaftQualityRunner._remove_log / _remove_result
VmaftRemoveLog(asset) ==
    /\ runner = "VMAFT"
    /\ prev' = PrevOf(last)
    /\ last' = Removal("remove_log", "VMAFT", asset)
    /\ logFiles' = AssemblerRemoveLogs(asset)
    /\ UNCHANGED <<store, psnrLog, runner, unit>>

VmaftRemoveResult(asset) ==
    /\ runner = "VMAFT"
    /\ prev' = PrevOf(last)
    /\ last' = Removal("remove_result", "VMAFT", asset)
    /\ store' = AssemblerRemoveResults(asset)
    /\ UNCHANGED <<logFiles, psnrLog, runner, unit>>

----------------------------------------------------------------------------
(* Specifications *)

Init ==
    /\ store = [k \in Keys |-> NoRow]
    /\ logFiles = {}
    /\ psnrLog = [a \in Assets |-> <<>>]
    /\ last = NoOp
    /\ prev = PrevOf(NoOp)
    /\ runner \in Runners
    /\ unit = NoCall

Next ==
    \E asset \in Assets :
        \/ PsnrRun(asset)
        \/ VmafRun(asset)
        \/ VmaftRun(asset)
        \/ PsnrRemoveLog(asset)
        \/ PsnrRemoveResult(asset)
        \/ VmafRemoveLog(asset)
        \/ VmafRemoveResult(asset)
        \/ VmaftRemoveLog(asset)
        \/ VmaftRemoveResult(asset)

\* one runner of either class, its ResultStore and its log files
Spec == Init /\ [][Next]_vars

NextUnit ==
    \/ CallGetQualityScores
    \/ CallRescale
    \/ CallPostCorrection

InitUnit == Init /\ runner = "VMAF"

\* the three methods, each called directly on bounded inputs
SpecUnit == InitUnit /\ [][NextUnit]_vars
----------------------------------------------------------------------------
(* What the properties are stated with *)

\* clamping to [0, 100], on scores in units of 1/SQ
ClampSpec(x) == IF x < 0 THEN 0 ELSE IF x > 100 * SQ THEN 100 * SQ ELSE x

\* (clip(v, lo, hi) - lo) / (hi - lo), in units of 1/Q
NormSpec(v, lo, hi) ==
    IF v < lo THEN 0 ELSE IF v > hi THEN Q ELSE ((v - lo) * Q) \div (hi - lo)

\* the bounds vif [0, 1], adm [0.4, 1], ansnr [10, 50], motion [0, 20]
BoundSpec ==
    VIF :> <<0, Q>> @@ ADM :> <<480, Q>> @@ ANSNR :> <<10 * Q, 50 * Q>> @@
    MOTION :> <<0, 20 * Q>>

\* score times ((min(m, 20) - 12) * 0.015 + 1) for m > 12, else the score
TimesFactorSpec(m, score) ==
    IF m > 12 * Q
    THEN (score \div SQ) * ((Min(m, 20 * Q) - 12 * Q) * 15 + 1000 * Q)
    ELSE score

IsRun(call, type) == call.op = "run" /\ call.runner = type

\* a run that went through the production step and returned a Result
Produced(call, type) == IsRun(call, type) /\ ~call.hit /\ call.ok

ScoresOf(call) == call.result.result_dict[get_scores_key(call.runner)]

----------------------------------------------------------------------------
(* C1 *)

\* C1: in a VMAF run, the score of frame i is the prediction of frame i
\* times ((min(m, 20) - 12) * 0.015 + 1) when the raw motion value m of
\* frame i exceeds 12, and the prediction itself when m <= 12, clamped.
C1_RawMotionDrivesCorrection ==
    Produced(last, "VMAF") =>
        \A i \in 1..Len(last.preds) :
            ScoresOf(last)[i] =
                ClampSpec(TimesFactorSpec(last.features[MOTION][i],
                                          last.preds[i]))

----------------------------------------------------------------------------
(* C2 *)

\* C2 (as stated): in a VMAF run the model is called, for every frame i,
\* with exactly the three rescaled values [vif'_i, adm'_i, ansnr'_i].
C2_ModelGetsThreeFeatures ==
    Produced(last, "VMAF") =>
        \A i \in 1..Len(last.xs) :
            last.xs[i] =
                <<NormSpec(last.features[VIF][i], 0, Q),
                  NormSpec(last.features[ADM][i], 480, Q),
                  NormSpec(last.features[ANSNR][i], 10 * Q, 50 * Q)>>

\* C2 (amended): in a VMAF run the model is called once per frame, for
\* frame i with exactly [vif'_i, adm'_i, ansnr'_i, motion'_i] in that order,
\* each the rescaled value of that feature at frame i; motion is rescaled
\* with bounds [0, 20] and is the fourth component.
C2_ModelGetsFourRescaledFeatures ==
    Produced(last, "VMAF") =>
        /\ Len(last.xs) = FrameCount(last.asset)
        /\ \A i \in 1..Len(last.xs) :
            last.xs[i] =
                <<NormSpec(last.features[VIF][i], 0, Q),
                  NormSpec(last.features[ADM][i], 480, Q),
                  NormSpec(last.features[ANSNR][i], 10 * Q, 50 * Q),
                  NormSpec(last.features[MOTION][i], 0, 20 * Q)>>

\* a VMAF run on frames (0.5, 0.6, 30, 5) and (1.1, 0.3, 5, 25): the model
\* got [0.5, 1/3, 0.5, 0.25] and [1, 0, 0, 1]
C2_Witness ==
    /\ Produced(last, "VMAF")
    /\ Len(last.xs) >= 2
    /\ last.features[MOTION][1] = 5 * Q
    /\ last.xs[1] = <<600, 400, 600, 300>>
    /\ last.features[MOTION][2] = 25 * Q
    /\ last.xs[2] = <<Q, 0, 0, Q>>

----------------------------------------------------------------------------
(* C3 *)

SameLengths(d) == \A k1, k2 \in DOMAIN d : Len(d[k1]) = Len(d[k2])

----------------------------------------------------------------------------
(* C4 *)

\* the frame index and the value a token stands for
IndexSpec ==
    <<"0">> :> 0 @@ <<"1">> :> 1 @@ <<"2">> :> 2 @@ <<"3">> :> 3 @@
    <<"0", "1">> :> 1

ValueSpec ==
    <<"3", "0">> :> 30 * Q @@ <<"-", "2", ".", "5">> :> 0 - (5 * Q) \div 2

MatchingLines(lines) == SelectSeq(lines, LAMBDA l : l.matches)

\* the frame indices of the matching lines are 0, 1, ..., n-1 and n >= 1
Contiguous(m) ==
    /\ Len(m) >= 1
    /\ \A i \in 1..Len(m) : IndexSpec[m[i].idx] = i - 1

\* C4: _get_quality_scores succeeds only on a log whose matching lines
\* carry the frame indices 0, 1, ..., n-1 in file order with n >= 1, and then
\* returns n scores, score i being the value of the line with index i; a
\* log with a gap, a repeat, a first index other than 0 or no matching line
\* fails and returns no series.
C4_ParseContiguous ==
    unit.fn = "get_quality_scores" =>
        LET m == MatchingLines(unit.lines) IN
        /\ unit.ok =>
            /\ Contiguous(m)
            /\ Len(unit.scores) = Len(m)
            /\ \A i \in 1..Len(m) : unit.scores[i] = ValueSpec[m[i].val]
        /\ ~Contiguous(m) => ~unit.ok /\ unit.scores = <<>>

\* a log of three lines, the second not a psnr line, parsed into the two
\* values 30 and -2.5
C4_Witness ==
    /\ unit.fn = "get_quality_scores"
    /\ Len(unit.lines) = 3
    /\ ~unit.lines[2].matches
    /\ unit.ok
    /\ unit.scores = <<30 * Q, 0 - (5 * Q) \div 2>>
----------------------------------------------------------------------------
(* C5 *)

\* C5: a run that directly follows a successful run of the same runner on
\* the same asset is a cache hit, returns the Result the first run
\* returned, invokes no external tool, runs neither the assembler nor the
\* model, and leaves the ResultStore and the log files as they were.
C5_SecondRunIsCacheHit ==
    [][(/\ last.op = "run" /\ last.ok
        /\ last'.op = "run"
        /\ prev' = PrevOf(last)
        /\ last'.runner = last.runner /\ last'.asset = last.asset)
       => (/\ last'.hit /\ last'.ok
           /\ last'.result = last.result
           /\ last'.tool = 0
           /\ ~last'.assembled /\ ~last'.inferred
           /\ store' = store /\ logFiles' = logFiles
           /\ psnrLog' = psnrLog)]_vars

\* the second of two runs in a row, answered from the ResultStore
C5_Witness ==
    /\ last.op = "run" /\ last.hit
    /\ prev.op = "run" /\ prev.ok
    /\ prev.runner = last.runner /\ prev.asset = last.asset
    /\ last.result = store[<<last.asset, last.runner>>].result

----------------------------------------------------------------------------
(* C6 *)

\* C6: once remove_log and remove_result of a fusion-path runner have both
\* been called for an asset, in either order, as the last two calls, no
\* log file of the feature extractor and no ResultStore row remains for
\* that asset, neither the extractor's row nor the runner's own.
C6_CleanupLeavesNothing ==
    \A type \in FusionRunners :
        (/\ last.runner = type /\ prev.runner = type
         /\ last.asset = prev.asset
         /\ {last.op, prev.op} = {"remove_log", "remove_result"})
        => /\ <<last.asset, FEATURE_TYPE>> \notin logFiles
           /\ ~store[<<last.asset, FEATURE_TYPE>>].present
           /\ ~store[<<last.asset, type>>].present

----------------------------------------------------------------------------
(* C7 *)

\* C7: every score a fusion-path runner stores or returns lies in
\* [0, 100]; the stored score is the corrected prediction if that lies in
\* [0, 100], 0 if it is below and 100 if it is above; and
\* _post_correction clamps the product of score and factor, not the score
\* before it is multiplied.
C7_ScoresClamped ==
    /\ \A type \in FusionRunners :
        /\ \A a \in Assets :
            store[<<a, type>>].present =>
                LET sc == store[<<a, type>>].result
                              .result_dict[get_scores_key(type)]
                IN  \A i \in 1..Len(sc) : 0 <= sc[i] /\ sc[i] <= 100 * SQ
        /\ IsRun(last, type) /\ last.ok =>
            \A i \in 1..Len(ScoresOf(last)) :
                0 <= ScoresOf(last)[i] /\ ScoresOf(last)[i] <= 100 * SQ
    /\ Produced(last, "VMAFT") =>
        \A i \in 1..Len(last.preds) :
            ScoresOf(last)[i] = ClampSpec(last.preds[i])
    /\ Produced(last, "VMAF") =>
        \A i \in 1..Len(last.preds) :
            ScoresOf(last)[i] =
                ClampSpec(TimesFactorSpec(last.xs[i][4], last.preds[i]))
    /\ \A m \in MotionSamples, sc \in ScoreSamples :
        post_correction(m, sc) = ClampSpec(TimesFactorSpec(m, sc))

\* a VMAF run whose predictions 110, -10 became the scores 100, 0
C7_Witness ==
    /\ Produced(last, "VMAF")
    /\ Len(last.preds) >= 2
    /\ last.preds[1] = 110 * SQ /\ ScoresOf(last)[1] = 100 * SQ
    /\ last.preds[2] = (0 - 10) * SQ /\ ScoresOf(last)[2] = 0
    /\ store[<<last.asset, "VMAF">>].result = last.result

----------------------------------------------------------------------------
(* C8 *)

\* C8: _rescale with a bound pair of the table returns a series of the
\* length of its input whose element i is (clip(v_i, lo, hi) - lo) /
\* (hi - lo): in [0, 1], 0 at and below lo, 1 at and above hi.
C8_RescaleCorrect ==
    unit.fn = "rescale" =>
        LET lo == BoundSpec[unit.key][1]
            hi == BoundSpec[unit.key][2]
        IN  /\ lo < hi
            /\ Len(unit.out) = Len(unit.vals)
            /\ \A i \in 1..Len(unit.vals) :
                LET v == unit.vals[i]
                    c == IF v < lo THEN lo ELSE IF v > hi THEN hi ELSE v
                IN  /\ 0 <= unit.out[i] /\ unit.out[i] <= Q
                    /\ unit.out[i] * (hi - lo) = (c - lo) * Q
                    /\ v <= lo => unit.out[i] = 0
                    /\ v >= hi => unit.out[i] = Q

\* adm values 0.3 and 1.1, outside [0.4, 1] on either side, rescaled to
\* 0 and 1
C8_Witness ==
    /\ unit.fn = "rescale"
    /\ unit.key = ADM
    /\ unit.vals = <<360, 1320>>
    /\ unit.out = <<0, Q>>

----------------------------------------------------------------------------
(* C9 *)

\* C9: a score that _post_correction does not clamp comes back unchanged
\* for motion <= 12, times (motion - 12) * 0.015 + 1 for
\* 12 < motion <= 20 (1.12 at 20), and times 1.12 for motion > 20.
C9_CorrectionBoundary ==
    unit.fn = "post_correction" =>
        LET m == unit.motion
            whole == unit.score \div SQ
            expected ==
                IF m <= 12 * Q THEN unit.score
                ELSE IF m <= 20 * Q
                     THEN whole * (1000 * Q + (m - 12 * Q) * 15)
                     ELSE whole * 1120 * Q
        IN  (0 <= expected /\ expected <= 100 * SQ) => unit.out = expected

\* motion 25 and score 50: the score comes back as 56 = 50 * 1.12
C9_Witness ==
    /\ unit.fn = "post_correction"
    /\ unit.motion = 25 * Q
    /\ unit.score = 50 * SQ
    /\ unit.out = 56 * SQ

----------------------------------------------------------------------------
(* C10 *)

\* C10: every score of a VMAFT run is the model's prediction for that frame
\* clamped to [0, 100], whatever the motion value of the frame.
C10_VmaftNoCorrection ==
    Produced(last, "VMAFT") =>
        /\ Len(ScoresOf(last)) = Len(last.preds)
        /\ \A i \in 1..Len(last.preds) :
            ScoresOf(last)[i] = ClampSpec(last.preds[i])

\* a VMAFT run with motion 15 and 25 whose predictions of 50 were stored
\* as 50
C10_Witness ==
    /\ Produced(last, "VMAFT")
    /\ Len(last.preds) >= 2
    /\ last.features[MOTION][1] = 15 * Q /\ last.features[MOTION][2] = 25 * Q
    /\ last.preds[1] = 50 * SQ /\ last.preds[2] = 50 * SQ
    /\ ScoresOf(last)[1] = 50 * SQ /\ ScoresOf(last)[2] = 50 * SQ
====
